---- MODULE Spec2Model ----
(***************************************************************************)
(* Model of scripts/manage_tasks.py: the task store (three status          *)
(* directories of Markdown task files), the command line operations        *)
(* generate / move / index, and the YOLO session (yolo_mode) with its      *)
(* validation gate, per-task safety wrapper and session alarm.             *)
(*                                                                         *)
(* A task file is modelled by the parts of its text the program reads or   *)
(* rewrites:                                                               *)
(*   status : the words that follow "**Status**: " on the status line      *)
(*   log    : the entries below the "<!-- Add progress updates here -->"   *)
(*            marker of the Progress Log section, top to bottom            *)
(*   text   : the phrases of the file that the keyword scan can hit        *)
(*   origin : which issue the file was generated from (0: not generated)   *)
(***************************************************************************)
EXTENDS Integers, Sequences, FiniteSets, TLC

(***************************************************************************)
(* Bounds of the model.                                                    *)
(***************************************************************************)
NumTasks == 2      \* task ids (file names) in the store
MaxLog == 3        \* status changes the move command has written to the files of the store
NumRests == 2      \* issues that share one generated task id
MaxTasksArg == 2   \* largest --max-tasks given to a session
MaxPhrases == 3    \* phrases in a text given to _is_task_yolo_suitable

TaskIds == 1..NumTasks

StatusDirs == {"todo", "in-progress", "completed"}

SearchOrder == <<"todo", "in-progress", "completed">>

\* What the command line accepts as a status: argparse puts no choices on it.
StatusArgs == StatusDirs \cup {"done"}

(***************************************************************************)
(* Task files.                                                             *)
(***************************************************************************)
NoFile == [exists |-> FALSE, status |-> <<>>, log |-> <<>>, text |-> {}, origin |-> 0]

TaskFile(status, log, text, origin) ==
    [exists |-> TRUE, status |-> status, log |-> log, text |-> text, origin |-> origin]

EmptyStore == [d \in StatusDirs |-> [t \in TaskIds |-> NoFile]]

Exists(st, d, t) == st[d][t].exists

\* An issue, reduced to the part generate_task_id keeps (key: the sanitized
\* component cut to 20 characters and the sanitized title cut to 30) and the
\* part it drops (rest).
Issues == [key : TaskIds, rest : 1..NumRests]

generate_task_id(issue) == issue.key

\* The text of a generated file: the header "## Task Information", the
\* acceptance criteria "Documentation updated ..." and "Security
\* considerations ...", and the issue's component.
TemplateText == {"Information", "Documentation", "Security", "Network"}

\* Mutant: the template has no line about security.
create_task_content_NoSecurity(issue) ==
    TaskFile(<<"TODO">>, <<"created">>, TemplateText \ {"Security"}, issue.rest)

create_task_content(issue) ==
    TaskFile(<<"TODO">>, <<"created">>, TemplateText, issue.rest)

create_task_from_issue(st, issue) ==
    [st EXCEPT !["todo"][generate_task_id(issue)] = create_task_content(issue)]

\* new_status.upper().replace("-", " "), as the words of the result
StatusWords(new_status) ==
    CASE new_status = "todo" -> <<"TODO">>
      [] new_status = "in-progress" -> <<"IN", "PROGRESS">>
      [] new_status = "completed" -> <<"COMPLETED">>

\* re.sub(r'\*\*Status\*\*: \w+', ...) replaces the first word after the
\* label and keeps the rest of the line; the progress entry is put on the
\* line right below the marker, above the entries already there.
update_task_status(c, new_status) ==
    [c EXCEPT !.status = IF c.status = <<>> THEN <<>>
                         ELSE StatusWords(new_status) \o Tail(c.status),
              !.log = <<new_status>> \o c.log]

rename(st, d, t, to, c) == [st EXCEPT ![d][t] = NoFile, ![to][t] = c]

move_task_ret(st, d, t, new_status) == new_status \in StatusDirs /\ Exists(st, d, t)

\* The store after move_task ran up to the point `upto`:
\*   "pre"  it was stopped before update_task_status wrote the file
\*   "mid"  it was stopped after the write, before the rename
\*   "post" it was stopped when the rename had been done
\*   "done" it ran to its end
move_task(st, d, t, new_status, upto) ==
    IF ~move_task_ret(st, d, t, new_status) \/ upto = "pre" THEN st
    ELSE IF upto = "mid"
         THEN [st EXCEPT ![d][t] = update_task_status(st[d][t], new_status)]
         ELSE rename(st, d, t, new_status, update_task_status(st[d][t], new_status))

Count(st, d) == Cardinality({t \in TaskIds : Exists(st, d, t)})

generate_index(st) ==
    [todo |-> Count(st, "todo"), in_progress |-> Count(st, "in-progress"),
     completed |-> Count(st, "completed")]

(***************************************************************************)
(* The publish side effect.  A git scenario is what the git commands of    *)
(* auto_commit_and_push do; the operator gives the method's return value.  *)
(***************************************************************************)
GitScenarios == {"norepo", "nochanges", "addfail", "commitfail", "pushfail", "ok"}

\* Mutant: a failed push makes the publish fail.
auto_commit_and_push_PushFatal(git) == git \in {"nochanges", "ok"}

auto_commit_and_push(git) == git \in {"nochanges", "pushfail", "ok"}

\* Mutant: no exception raised by a git command is taken.
Absorbs_Nothing(exc) == FALSE

\* Lines 459-461: `except Exception` of auto_commit_and_push takes what a git
\* command raises unless it is a KeyboardInterrupt, and the alarm's
\* TimeoutError with it.
Absorbs(exc) == exc # "KeyboardInterrupt"

\* Mutant: the publish is recorded for the move to in-progress.
Publish_OnBegin(t, action, git) ==
    [task |-> t, action |-> "in-progress", git |-> git, ret |-> auto_commit_and_push(git)]

Publish(t, action, git) ==
    [task |-> t, action |-> action, git |-> git, ret |-> auto_commit_and_push(git)]

(***************************************************************************)
(* The validation gate.  A message is a sequence of text fragments.  What  *)
(* the external command of a check did is a record                         *)
(*   how   : "exit" (it ran and exited), "timeout" (subprocess's own       *)
(*           TimeoutExpired) or "raise" (any other exception raised        *)
(*           inside subprocess.run)                                        *)
(*   rc    : the exit status                                               *)
(*   lines : its stderr, line by line                                      *)
(*   exc   : the text of the exception                                     *)
(***************************************************************************)
Proc(how, rc, lines, exc) == [how |-> how, rc |-> rc, lines |-> lines, exc |-> exc]

Exit(rc, lines) == Proc("exit", rc, lines, <<>>)

CheckResult(success, errors, warnings) ==
    [success |-> success, errors |-> errors, warnings |-> warnings]

\* 'error:' in line.lower(), 'warning:' in line.lower(); a line is the
\* sequence of its words.
HasError(line) == \E k \in DOMAIN line : line[k] \in {"error:", "Error:"}

HasWarning(line) == \E k \in DOMAIN line : line[k] \in {"warning:", "Warning:"}

\* Mutant: a check that cannot run counts as passed.
Synthetic_Passed(p, timed_out, failed) == CheckResult(TRUE, <<>>, <<>>)

Synthetic(p, timed_out, failed) ==
    IF p.how = "timeout" THEN CheckResult(FALSE, <<<<timed_out>>>>, <<>>)
    ELSE CheckResult(FALSE, <<<<failed>> \o p.exc>>, <<>>)

run_rust_check(p) ==
    IF p.how # "exit"
    THEN Synthetic(p, "Cargo check timed out after 2 minutes", "Cargo check failed: ")
    ELSE IF p.rc = 0 THEN CheckResult(TRUE, <<>>, <<>>)
    ELSE LET errors == SelectSeq(p.lines, HasError)
             IsWarning(line) == ~HasError(line) /\ HasWarning(line)
         IN  CheckResult(FALSE,
                         IF errors # <<>> THEN errors ELSE <<<<"stderr">>>>,
                         SelectSeq(p.lines, IsWarning))

run_clippy_check(p) ==
    IF p.how # "exit"
    THEN Synthetic(p, "Cargo clippy timed out after 2 minutes", "Cargo clippy failed: ")
    ELSE LET IsError(line) == ~HasWarning(line) /\ HasError(line)
         IN  CheckResult(p.rc = 0, SelectSeq(p.lines, IsError),
                         SelectSeq(p.lines, HasWarning))

run_doc_validation(p) ==
    IF p.how # "exit"
    THEN Synthetic(p, "Documentation validation timed out after 1 minute",
                   "Documentation validation failed: ")
    ELSE IF p.rc = 0 THEN CheckResult(TRUE, <<>>, <<>>)
    ELSE CheckResult(FALSE, <<<<"stderr">>>>, <<>>)

run_format_check(p) ==
    IF p.how # "exit"
    THEN Synthetic(p, "Format check timed out after 30 seconds", "Format check failed: ")
    ELSE IF p.rc = 0 THEN CheckResult(TRUE, <<>>, <<>>)
    ELSE CheckResult(FALSE, <<<<"Code formatting issues found">>>>,
                     <<>>)

Prefixed(prefix, msgs) == [k \in DOMAIN msgs |-> <<prefix>> \o msgs[k]]

\* Mutant: strict mode does not turn warnings into errors.
AddCheck_NoStrict(r, name, c, carry, strict, prefix) ==
    LET r1 == [r EXCEPT !.checks_run = Append(@, name)]
        r2 == IF ~c.success
              THEN [r1 EXCEPT !.success = FALSE, !.errors = @ \o c.errors] ELSE r1
    IN  IF carry /\ c.warnings # <<>>
        THEN [r2 EXCEPT !.warnings = @ \o c.warnings] ELSE r2

\* Mutant: a failed check hands over its errors and leaves success as it is.
AddCheck_KeepsSuccess(r, name, c, carry, strict, prefix) ==
    LET r1 == [r EXCEPT !.checks_run = Append(@, name)]
        r2 == IF ~c.success THEN [r1 EXCEPT !.errors = @ \o c.errors] ELSE r1
        r3 == IF carry /\ c.warnings # <<>>
              THEN [r2 EXCEPT !.warnings = @ \o c.warnings] ELSE r2
    IN  IF carry /\ c.warnings # <<>> /\ strict
        THEN [r3 EXCEPT !.success = FALSE, !.errors = @ \o Prefixed(prefix, c.warnings)]
        ELSE r3

\* One block of run_all_validations: the check's name is recorded, a failed
\* check clears success and hands over its errors, warnings are carried
\* over when `carry` and turned into errors when `strict`.
AddCheck(r, name, c, carry, strict, prefix) ==
    LET r1 == [r EXCEPT !.checks_run = Append(@, name)]
        r2 == IF ~c.success
              THEN [r1 EXCEPT !.success = FALSE, !.errors = @ \o c.errors] ELSE r1
        r3 == IF carry /\ c.warnings # <<>>
              THEN [r2 EXCEPT !.warnings = @ \o c.warnings] ELSE r2
    IN  IF carry /\ c.warnings # <<>> /\ strict
        THEN [r3 EXCEPT !.success = FALSE, !.errors = @ \o Prefixed(prefix, c.warnings)]
        ELSE r3

\* Mutant: the gate stops at the first check that fails.
run_all_validations_ShortCircuit(procs, strict_mode) ==
    LET r0 == [success |-> TRUE, errors |-> <<>>, warnings |-> <<>>, checks_run |-> <<>>]
        r1 == AddCheck(r0, "cargo_check", run_rust_check(procs[1]), TRUE, strict_mode,
                       "Warning (strict mode): ")
        r2 == AddCheck(r1, "clippy", run_clippy_check(procs[2]), TRUE, strict_mode,
                       "Clippy warning (strict mode): ")
        r3 == AddCheck(r2, "doc_validation", run_doc_validation(procs[3]), TRUE, FALSE, "")
    IN  IF ~r1.success THEN r1
        ELSE IF ~r2.success THEN r2
        ELSE IF ~r3.success THEN r3
        ELSE AddCheck(r3, "format_check", run_format_check(procs[4]), FALSE, FALSE, "")

\* procs: what the four external commands do, in the order they are run.
run_all_validations(procs, strict_mode) ==
    LET r0 == [success |-> TRUE, errors |-> <<>>, warnings |-> <<>>, checks_run |-> <<>>]
        r1 == AddCheck(r0, "cargo_check", run_rust_check(procs[1]), TRUE, strict_mode,
                       "Warning (strict mode): ")
        r2 == AddCheck(r1, "clippy", run_clippy_check(procs[2]), TRUE, strict_mode,
                       "Clippy warning (strict mode): ")
        r3 == AddCheck(r2, "doc_validation", run_doc_validation(procs[3]), TRUE, FALSE, "")
    IN  AddCheck(r3, "format_check", run_format_check(procs[4]), FALSE, FALSE, "")

(***************************************************************************)
(* The suitability filter.                                                 *)
(***************************************************************************)
suitable_indicators ==
    {"unit test", "documentation", "comment", "format", "style", "lint", "typo",
     "readme", "example"}

risky_indicators ==
    {"security", "authentication", "network protocol", "data migration",
     "breaking change", "api change", "database", "critical"}

\* str.lower() on the phrases that occur in the model's files and arguments
Lower(p) ==
    CASE p \in {"Information", "information"} -> "information"
      [] p \in {"Documentation", "documentation"} -> "documentation"
      [] p \in {"Security", "SECURITY", "security"} -> "security"
      [] p \in {"Network", "NETWORK", "network"} -> "network"
      [] p \in {"Storage", "storage"} -> "storage"
      [] p \in {"unit test", "Unit Test"} -> "unit test"
      [] OTHER -> p

\* needle in hay, for lower-case phrases
IsSubstring(needle, hay) ==
    \/ needle = hay
    \/ <<needle, hay>> \in {<<"format", "information">>, <<"net", "network">>}

\* needle in content.lower()
InLower(needle, text) == \E p \in text : IsSubstring(needle, Lower(p))

\* Mutant: the suitable keywords are looked for first.
_is_task_yolo_suitable_SuitableFirst(text) ==
    \E suitable \in suitable_indicators : InLower(suitable, text)

_is_task_yolo_suitable(text) ==
    IF \E risky \in risky_indicators : InLower(risky, text) THEN FALSE
    ELSE \E suitable \in suitable_indicators : InLower(suitable, text)

\* Mutant: the scan never stops before the end of todo.
ScanStops_Never(acc, max_tasks) == FALSE

\* Mutant: the scan stops one candidate late.
ScanStops_OneLate(acc, max_tasks) == Len(acc) > max_tasks

\* Line 813: the scan stops when it has max_tasks candidates.
ScanStops(acc, max_tasks) == Len(acc) >= max_tasks

\* The loop of _find_yolo_tasks from position k of the glob result `order`,
\* with `acc` the candidates so far; `unreadable` are the files whose read
\* raised (the except clause skips them).
RECURSIVE ScanTodo(_, _, _, _, _, _, _)
ScanTodo(st, order, k, acc, max_tasks, component_filter, unreadable) ==
    IF k > Len(order) \/ ScanStops(acc, max_tasks) THEN acc
    ELSE LET t == order[k]
             text == st["todo"][t].text
             keep == /\ t \notin unreadable
                     /\ component_filter # "" => InLower(Lower(component_filter), text)
                     /\ _is_task_yolo_suitable(text)
         IN  ScanTodo(st, order, k + 1, IF keep THEN Append(acc, t) ELSE acc,
                      max_tasks, component_filter, unreadable)

_find_yolo_tasks(st, order, max_tasks, component_filter, unreadable) ==
    ScanTodo(st, order, 1, <<>>, max_tasks, component_filter, unreadable)

\* The orders glob("*.md") can list the files of todo in.
GlobOrders(st) ==
    LET files == {t \in TaskIds : Exists(st, "todo", t)}
    IN  {o \in [1..Cardinality(files) -> files] :
            \A a, b \in DOMAIN o : a # b => o[a] # o[b]}

\* The scan opens the file at position k of the order (it has not stopped before).
Reads(st, order, k, max_tasks, component_filter) ==
    /\ k \in DOMAIN order
    /\ Len(_find_yolo_tasks(st, SubSeq(order, 1, k - 1), max_tasks, component_filter, {}))
         < max_tasks

(***************************************************************************)
(* State.                                                                  *)
(***************************************************************************)
VARIABLES
    store,          \* the three status directories: store[dir][task id]
    index,          \* the counts written to tasks/README.md by generate_index
    published,      \* calls of auto_commit_and_push made by the current command
    last,           \* the command that ran last, with what it was given
    store0,         \* the store as it was when the yolo_mode call started
    pc,             \* where the running yolo_mode call stands ("idle": none runs)
    args,           \* the arguments of the yolo_mode call
    results,        \* yolo_mode's results dictionary
    suitable_tasks, \* the candidates _find_yolo_tasks returned
    i,              \* index of the candidate the loop is at
    task_result,    \* _execute_task_safely's result dictionary
    alarm,          \* the SIGALRM timer: "off", "armed", "fired" or "cancelled"
    interrupted,    \* a KeyboardInterrupt was delivered to the session
    hist,           \* what the session did to its candidates (see NoHist)
    call            \* a direct call of one method: its inputs and what it returned

vars == <<store, index, published, last, store0, pc, args, results,
          suitable_tasks, i, task_result, alarm, interrupted, hist, call>>

sessionVars == <<pc, args, results, suitable_tasks, i, task_result, alarm,
                 interrupted, hist>>

\* Files a user wrote by hand in the layout of the generated ones; their
\* text has the header "## Task Information", the words "unit test" and a
\* component name.
HandText(component) == {"Information", "unit test", component}

InitFiles ==
    {NoFile,
     create_task_content([key |-> 1, rest |-> 1]),
     TaskFile(<<"TODO">>, <<>>, HandText("Network"), 0),
     TaskFile(<<"TODO">>, <<>>, HandText("Storage"), 0)}

NoArgs ==
    [max_tasks |-> 0, component_filter |-> "", dry_run |-> FALSE, max_files |-> 0,
     strict_validation |-> FALSE, skip_validation |-> FALSE]

NoResults ==
    [tasks_attempted |-> 0, tasks_completed |-> 0, tasks_failed |-> 0,
     total_files_modified |-> 0, errors |-> <<>>, completed_tasks |-> <<>>,
     validation_results |-> <<>>]

NoTaskResult ==
    [success |-> FALSE, files_modified |-> 0, error |-> <<>>,
     validation_results |-> <<>>, validation_warnings |-> <<>>]

\* begun: the candidates whose file the session renamed into in-progress;
\* over_budget: those the file budget test of line 902 turned down;
\* rolled_back: those whose file a move_task(..., 'todo') of the session
\* renamed back into todo; timeout_at: the step of the session in which the
\* alarm's TimeoutError was raised ("": in none); begin_failed: the
\* candidates whose move into in-progress raised; gate_runs: the runs of
\* run_all_validations the session made, in the order it made them, each with
\* its stage, what it returned and the candidate it was made for (0: none).
NoHist ==
    [begun |-> {}, over_budget |-> {}, rolled_back |-> {}, timeout_at |-> "",
     begin_failed |-> {}, gate_runs |-> <<>>]

GateRun(h, stage, result, t) ==
    [h EXCEPT !.gate_runs = Append(@, [stage |-> stage, result |-> result, task |-> t])]

NoCall == [op |-> "none"]

NoCommand == [op |-> "none", target |-> 0, from |-> "", status |-> "", ret |-> FALSE]

InitSession ==
    /\ store \in {[d \in StatusDirs |-> IF d = "todo" THEN f ELSE [t \in TaskIds |-> NoFile]] :
                    f \in [TaskIds -> InitFiles]}
    /\ index = generate_index(store)
    /\ published = <<>>
    /\ last = NoCommand
    /\ store0 = store
    /\ pc = "idle"
    /\ args = NoArgs
    /\ results = NoResults
    /\ suitable_tasks = <<>>
    /\ i = 0
    /\ task_result = NoTaskResult
    /\ alarm = "off"
    /\ interrupted = FALSE
    /\ hist = NoHist
    /\ call = NoCall

\* The command line starts on the empty directories TaskManager.__init__ makes.
InitStore ==
    /\ store = EmptyStore
    /\ index = generate_index(store)
    /\ published = <<>>
    /\ last = NoCommand
    /\ store0 = store
    /\ pc = "idle"
    /\ args = NoArgs
    /\ results = NoResults
    /\ suitable_tasks = <<>>
    /\ i = 0
    /\ task_result = NoTaskResult
    /\ alarm = "off"
    /\ interrupted = FALSE
    /\ hist = NoHist
    /\ call = NoCall

(***************************************************************************)
(* The command line: main().                                               *)
(***************************************************************************)
RECURSIVE generate_tasks_from_json(_, _)
generate_tasks_from_json(st, issues) ==
    IF issues = <<>> THEN st
    ELSE generate_tasks_from_json(create_task_from_issue(st, Head(issues)), Tail(issues))

\* The JSON files given to 'generate': one issue each.
IssueLists == {<<a>> : a \in Issues}

\* main, action 'generate'
Generate ==
    \E issues \in IssueLists :
        /\ pc = "idle"
        /\ store' = generate_tasks_from_json(store, issues)
        /\ index' = generate_index(store')
        /\ published' = <<>>
        /\ last' = [NoCommand EXCEPT !.op = "generate"]
        /\ UNCHANGED <<store0, sessionVars, call>>

\* The directory main's search finds the target in ("" when in none).
FindTaskFile(st, target) ==
    IF Exists(st, SearchOrder[1], target) THEN SearchOrder[1]
    ELSE IF Exists(st, SearchOrder[2], target) THEN SearchOrder[2]
    ELSE IF Exists(st, SearchOrder[3], target) THEN SearchOrder[3]
    ELSE ""

\* Progress entries "Status changed to ..." in the files of the store.
RECURSIVE SumOver(_, _)
SumOver(S, f) ==
    IF S = {} THEN 0
    ELSE LET x == CHOOSE y \in S : TRUE IN f[x] + SumOver(S \ {x}, f)

StatusChanges(st) ==
    SumOver(StatusDirs \X TaskIds,
            [p \in StatusDirs \X TaskIds |->
                Cardinality({k \in DOMAIN st[p[1]][p[2]].log :
                                st[p[1]][p[2]].log[k] # "created"})])

\* main, action 'move': the file is looked up, moved, and the index rewritten;
\* without a file the process exits before it changes anything.
MainMove ==
    \E target \in TaskIds, status \in StatusArgs, no_auto_commit \in BOOLEAN,
       git \in GitScenarios :
        LET from == FindTaskFile(store, target)
            ret == move_task_ret(store, from, target, status)
        IN  /\ pc = "idle"
            /\ from # ""
            /\ StatusChanges(store) < MaxLog
            /\ no_auto_commit => git = "ok"
            /\ store' = move_task(store, from, target, status, "done")
            /\ published' = IF ret /\ ~no_auto_commit
                            THEN <<Publish(target, status, git)>> ELSE <<>>
            /\ index' = generate_index(store')
            /\ last' = [op |-> "move", target |-> target, from |-> from,
                        status |-> status, ret |-> ret]
            /\ UNCHANGED <<store0, sessionVars, call>>

\* main, action 'index'
MainIndex ==
    /\ pc = "idle"
    /\ index' = generate_index(store)
    /\ published' = <<>>
    /\ last' = [NoCommand EXCEPT !.op = "index"]
    /\ UNCHANGED <<store, store0, sessionVars, call>>

NextStore == Generate \/ MainMove \/ MainIndex

SpecStore == InitStore /\ [][NextStore]_vars

(***************************************************************************)
(* The YOLO session: yolo_mode, one step of it per action.  The session    *)
(* alarm and a user's Ctrl+C are delivered while the process waits in a    *)
(* blocking call: an external command, or a read, write or rename of a     *)
(* task file.  Each step says at which of its blocking calls, if any, one  *)
(* of the two arrives; each arrives at most once in a session.  The        *)
(* timeout given to a session is positive, so the deadline test of the     *)
(* loop (elapsed > timeout) is true exactly when the alarm has fired.      *)
(***************************************************************************)
estimated_files == 1

YoloArgs ==
    [max_tasks : 0..MaxTasksArg, component_filter : {"", "NETWORK"}, dry_run : BOOLEAN,
     max_files : {0, 10}, strict_validation : BOOLEAN, skip_validation : BOOLEAN]

\* What the four external commands do in a session's gate runs.
Quiet == Exit(0, <<>>)

SessionGates ==
    {<<Quiet, Quiet, Quiet, Quiet>>,
     <<Quiet, Exit(0, <<<<"warning:", "unused">>>>), Quiet, Quiet>>,
     <<Exit(1, <<<<"error:", "E0308">>>>), Quiet, Quiet, Quiet>>,
     <<Quiet, Quiet, Quiet, Exit(1, <<>>)>>}

\* Mutant: a failed pre-task gate does not end the session.
PreFlightBlocks_Never(pre) == FALSE

\* Line 695: a failed pre-task gate ends the session.
PreFlightBlocks(pre) == ~pre.success

\* Line 902: the file budget test.
OverBudget(max_files) == estimated_files > max_files

BudgetMsg == <<"Task would modify files over the limit">>

\* Line 920: a failed post-task gate sends the task back.
PostValidationFails(post) == ~post.success

\* Mutant: the loop never sees the deadline.
DeadlineReached_Never(al) == FALSE

\* Line 726: the deadline test at the head of the loop.
DeadlineReached(al) == al = "fired"

\* Mutant: a dry run counts the candidate as failed.
DryRunCounts_AsFailed(res) == [res EXCEPT !.tasks_failed = @ + 1]

\* Lines 733-736: a dry run counts the candidate as completed.
DryRunCounts(res) == [res EXCEPT !.tasks_completed = @ + 1]

\* str(e) of the alarm's TimeoutError
TimeoutMsg == <<"YOLO mode timeout">>

InterruptMsg == <<"User interrupted">>

\* str(e) of an OSError raised by the read, the write or the rename of a
\* task file
OSErrorMsg == <<"OSError">>

\* The gate run in which the alarm is raised inside check k (k = 0: in none):
\* the check's own except clause takes the TimeoutError.
GateProcs(procs, k) ==
    IF k = 0 THEN procs ELSE [procs EXCEPT ![k] = Proc("raise", 0, <<>>, TimeoutMsg)]

\* An entry of results['errors'] that is a plain string
Bare(msg) == [task |-> 0, error |-> msg]

RECURSIVE Join(_)
Join(msgs) == IF msgs = <<>> THEN <<>> ELSE Head(msgs) \o Join(Tail(msgs))

InterruptPoints == {"pre", "mid", "post"}

\* Where an OSError can end a move_task: in the read or the write of
\* update_task_status ("pre"), or in the rename that follows ("mid").
ErrorPoints == {"pre", "mid"}

\* Mutant: the alarm is left as it is when the call ends.
CancelAlarm_Never(al) == al

\* Line 777: signal.alarm(0) cancels an alarm that has not fired.
CancelAlarm(al) == IF al = "armed" THEN "cancelled" ELSE al

\* The assignment of one step. `finally: signal.alarm(0)` runs when the
\* call ends, and main rewrites the index after a session that was no dry
\* run and completed a task.
Step(p, st, res, tr, al, intr, pub, bg) ==
    /\ pc' = p
    /\ store' = st
    /\ results' = res
    /\ task_result' = tr
    /\ alarm' = IF p = "done" THEN CancelAlarm(al) ELSE al
    /\ interrupted' = intr
    /\ published' = pub
    /\ hist' = IF al = "fired" /\ alarm # "fired" THEN [bg EXCEPT !.timeout_at = pc] ELSE bg
    /\ index' = IF p = "done" /\ ~args.dry_run /\ res.tasks_completed > 0
                THEN generate_index(st) ELSE index
    /\ UNCHANGED <<last, store0, call>>

\* yolo_mode's except clauses: the message is appended and the call ends.
Raised(msg, st, al, intr, pub, bg) ==
    Step("done", st, [results EXCEPT !.errors = Append(@, Bare(msg))], task_result,
         al, intr, pub, bg)

\* The else branch of the loop body: the failure is counted and the loop left.
TaskFailed(t, error, st, al, intr, bg) ==
    Step("done", st,
         [results EXCEPT !.tasks_failed = @ + 1,
                         !.errors = Append(@, [task |-> t, error |-> error])],
         [task_result EXCEPT !.error = error], al, intr, published, bg)

\* The history after a move back to todo that got as far as `upto`.
RolledBack(h, t, upto) ==
    IF upto \in {"post", "done"} THEN [h EXCEPT !.rolled_back = @ \cup {t}] ELSE h

\* The except clause of _execute_task_safely: the file, if it is in
\* in-progress, is moved back; `cu` is how far that move got before a
\* Ctrl+C that the bare except swallows ("done": none came).
Cleanup(st, t, cu) ==
    IF Exists(st, "in-progress", t) THEN move_task(st, "in-progress", t, "todo", cu) ELSE st

CleanupPoints(st, t) ==
    IF ~interrupted /\ Exists(st, "in-progress", t) THEN InterruptPoints \cup {"done"}
    ELSE {"done"}

\* A TimeoutError raised in the try block of _execute_task_safely with the
\* store at st.
TaskRaised(t, st, bg) ==
    \E cu \in CleanupPoints(st, t) :
        TaskFailed(t, TimeoutMsg, Cleanup(st, t, cu), "fired",
                   interrupted \/ cu # "done",
                   IF Exists(st, "in-progress", t) THEN RolledBack(bg, t, cu) ELSE bg)

\* An OSError raised in the try block of _execute_task_safely with the store
\* at st: the except clause of line 934 takes it as it takes the TimeoutError.
TaskErrored(t, st, bg) ==
    \E cu \in CleanupPoints(st, t) :
        TaskFailed(t, OSErrorMsg, Cleanup(st, t, cu), alarm,
                   interrupted \/ cu # "done",
                   IF Exists(st, "in-progress", t) THEN RolledBack(bg, t, cu) ELSE bg)

StartYolo ==
    \E a \in YoloArgs :
        /\ pc = "idle"
        /\ args' = a
        /\ last' = [NoCommand EXCEPT !.op = "yolo"]
        /\ store0' = store
        /\ pc' = "preflight"
        /\ results' = NoResults
        /\ alarm' = "armed"
        /\ published' = <<>>
        /\ UNCHANGED <<store, index, suitable_tasks, i, task_result, interrupted, hist,
                       call>>

\* Lines 686-714: the pre-task gate.
PreFlight ==
    /\ pc = "preflight"
    /\ UNCHANGED <<args, suitable_tasks, i>>
    /\ \/ /\ args.skip_validation
          /\ Step("find", store, results, task_result, alarm, interrupted, published, hist)
       \/ /\ ~args.skip_validation
          /\ \E procs \in SessionGates, k \in 0..4 :
                /\ k > 0 => alarm = "armed"
                /\ LET pre == run_all_validations(GateProcs(procs, k), args.strict_validation)
                       al == IF k > 0 THEN "fired" ELSE alarm
                       res == [results EXCEPT !.validation_results =
                                  Append(@, [stage |-> "pre-task", result |-> pre])]
                       bg == GateRun(hist, "pre-task", pre, 0)
                   IN  IF PreFlightBlocks(pre)
                       THEN Step("done", store,
                                 [res EXCEPT !.errors =
                                     @ \o [j \in DOMAIN pre.errors |-> Bare(pre.errors[j])]],
                                 task_result, al, interrupted, published, bg)
                       ELSE Step("find", store, res, task_result, al, interrupted,
                                 published, bg)
       \/ /\ ~args.skip_validation
          /\ ~interrupted
          /\ Raised(InterruptMsg, store, alarm, TRUE, published, hist)

\* Lines 716-723: the candidates are looked up.
FindTasks ==
    /\ pc = "find"
    /\ UNCHANGED args
    /\ \/ \E order \in GlobOrders(store), k \in 0..NumTasks :
            /\ k > 0 => alarm = "armed" /\
                        Reads(store, order, k, args.max_tasks, args.component_filter)
            /\ LET found == _find_yolo_tasks(store, order, args.max_tasks,
                                             args.component_filter,
                                             IF k = 0 THEN {} ELSE {order[k]})
                   al == IF k > 0 THEN "fired" ELSE alarm
               IN  /\ suitable_tasks' = found
                   /\ i' = 1
                   /\ Step(IF found = <<>> THEN "done" ELSE "loop", store, results,
                           task_result, al, interrupted, published, hist)
       \/ /\ alarm = "armed"
          /\ UNCHANGED <<suitable_tasks, i>>
          /\ Raised(TimeoutMsg, store, "fired", interrupted, published, hist)
       \/ /\ ~interrupted
          /\ UNCHANGED <<suitable_tasks, i>>
          /\ Raised(InterruptMsg, store, alarm, TRUE, published, hist)

\* Lines 725-736: the head of the loop, and the whole body in a dry run.
LoopTop ==
    /\ pc = "loop"
    /\ UNCHANGED <<args, suitable_tasks>>
    /\ IF i > Len(suitable_tasks) \/ DeadlineReached(alarm)
       THEN /\ UNCHANGED i
            /\ Step("done", store, results, task_result, alarm, interrupted, published,
                    hist)
       ELSE LET res == [results EXCEPT !.tasks_attempted = @ + 1]
            IN  IF args.dry_run
                THEN /\ i' = i + 1
                     /\ Step("loop", store, DryRunCounts(res),
                             task_result, alarm, interrupted, published, hist)
                ELSE /\ UNCHANGED i
                     /\ Step("begin", store, res, NoTaskResult, alarm, interrupted,
                             published, hist)

\* Lines 889-909: the move to in-progress and the file budget.
Begin ==
    /\ pc = "begin"
    /\ UNCHANGED <<args, suitable_tasks, i>>
    /\ LET t == suitable_tasks[i]
           After(upto) == move_task(store, "todo", t, "in-progress", upto)
           Bg(st) == IF Exists(st, "in-progress", t)
                     THEN [hist EXCEPT !.begun = @ \cup {t}] ELSE hist
           Failed(h) == [h EXCEPT !.begin_failed = @ \cup {t}]
       IN  \/ LET st == After("done")
              IN  IF OverBudget(args.max_files)
                  THEN Step("rollback", st, results,
                            [task_result EXCEPT !.error = BudgetMsg],
                            alarm, interrupted, published,
                            [Bg(st) EXCEPT !.over_budget = @ \cup {t}])
                  ELSE Step(IF args.skip_validation THEN "complete" ELSE "postval", st,
                            results, [task_result EXCEPT !.files_modified = estimated_files],
                            alarm, interrupted, published, Bg(st))
           \/ \E q \in InterruptPoints :
                /\ alarm = "armed"
                /\ TaskRaised(t, After(q), Failed(Bg(After(q))))
           \/ \E q \in ErrorPoints :
                TaskErrored(t, After(q), Failed(Bg(After(q))))
           \/ \E q \in InterruptPoints :
                /\ ~interrupted
                /\ Raised(InterruptMsg, After(q), alarm, TRUE, published, Bg(After(q)))

\* Lines 911-927: the post-task gate.
PostValidation ==
    /\ pc = "postval"
    /\ UNCHANGED <<args, suitable_tasks, i>>
    /\ LET t == suitable_tasks[i]
       IN  \/ \E procs \in SessionGates, k \in 0..4 :
                /\ k > 0 => alarm = "armed"
                /\ LET post == run_all_validations(GateProcs(procs, k),
                                                   args.strict_validation)
                       al == IF k > 0 THEN "fired" ELSE alarm
                       tr == [task_result EXCEPT !.validation_results =
                                 Append(@, [stage |-> "post-task", result |-> post])]
                       bg == GateRun(hist, "post-task", post, t)
                   IN  IF PostValidationFails(post)
                       THEN Step("rollback", store, results,
                                 [tr EXCEPT !.error = <<"Post-task validation failed: ">>
                                                         \o Join(post.errors)],
                                 al, interrupted, published, bg)
                       ELSE Step("complete", store, results,
                                 [tr EXCEPT !.validation_warnings = post.warnings],
                                 al, interrupted, published, bg)
           \/ /\ ~interrupted
              /\ Raised(InterruptMsg, store, alarm, TRUE, published, hist)

\* Lines 905-906 and 923-924: the move back to todo, and the failed result.
Rollback ==
    /\ pc = "rollback"
    /\ UNCHANGED <<args, suitable_tasks, i>>
    /\ LET t == suitable_tasks[i]
           After(upto) == move_task(store, "in-progress", t, "todo", upto)
       IN  \/ TaskFailed(t, task_result.error, After("done"), alarm, interrupted,
                         RolledBack(hist, t, "done"))
           \/ \E q \in InterruptPoints :
                /\ alarm = "armed"
                /\ TaskRaised(t, After(q), RolledBack(hist, t, q))
           \/ \E q \in InterruptPoints :
                /\ ~interrupted
                /\ Raised(InterruptMsg, After(q), alarm, TRUE, published,
                          RolledBack(hist, t, q))

\* Lines 929-932 and 741-754: the move to completed with its publish, and
\* the success branch of the loop body.
Complete ==
    /\ pc = "complete"
    /\ UNCHANGED <<args, suitable_tasks>>
    /\ LET t == suitable_tasks[i]
           After(upto) == move_task(store, "in-progress", t, "completed", upto)
           Counted == [results EXCEPT
                          !.tasks_completed = @ + 1,
                          !.completed_tasks = Append(@, t),
                          !.total_files_modified = @ + task_result.files_modified,
                          !.validation_results = @ \o task_result.validation_results]
           Success == [task_result EXCEPT !.success = TRUE]
       IN  \/ \E git \in GitScenarios :
                /\ i' = i + 1
                /\ Step("loop", After("done"), Counted, Success, alarm, interrupted,
                        Append(published, Publish(t, "completed", git)), hist)
           \/ /\ alarm = "armed"
              /\ LET pub == Append(published, [Publish(t, "completed", "raise") EXCEPT
                                                  !.ret = FALSE])
                 IN  IF Absorbs("TimeoutError")
                     THEN /\ i' = i + 1
                          /\ Step("loop", After("done"), Counted, Success, "fired",
                                  interrupted, pub, hist)
                     ELSE /\ UNCHANGED i
                          /\ Step("done", After("done"),
                                  [results EXCEPT
                                      !.tasks_failed = @ + 1,
                                      !.errors = Append(@, [task |-> t, error |-> TimeoutMsg])],
                                  [task_result EXCEPT !.error = TimeoutMsg], "fired",
                                  interrupted, pub, hist)
           \/ \E q \in InterruptPoints :
                /\ alarm = "armed"
                /\ UNCHANGED i
                /\ TaskRaised(t, After(q), hist)
           \/ \E q \in InterruptPoints :
                /\ ~interrupted
                /\ UNCHANGED i
                /\ Raised(InterruptMsg, After(q), alarm, TRUE, published, hist)
           \/ /\ ~interrupted
              /\ ~Absorbs("KeyboardInterrupt")
              /\ UNCHANGED i
              /\ Raised(InterruptMsg, After("done"), alarm, TRUE,
                        Append(published, [Publish(t, "completed", "interrupt") EXCEPT
                                              !.ret = FALSE]), hist)

NextSession ==
    \/ StartYolo
    \/ PreFlight
    \/ FindTasks
    \/ LoopTop
    \/ Begin
    \/ PostValidation
    \/ Rollback
    \/ Complete

SpecSession == InitSession /\ [][NextSession]_vars

(***************************************************************************)
(* Direct calls of the methods that compute a value from their inputs:     *)
(* _is_task_yolo_suitable, _find_yolo_tasks and run_all_validations.  A    *)
(* behaviour makes one call; `call` keeps its inputs and its result.       *)
(***************************************************************************)
\* Phrases of a task text: risky and suitable keywords in several casings,
\* a phrase that contains a keyword ("Information": 'format') and phrases
\* that contain none.
CallPhrases ==
    {"Security", "SECURITY", "database", "Documentation", "unit test", "Unit Test",
     "Information", "Network", "Storage"}

CallTexts == {text \in SUBSET CallPhrases : Cardinality(text) <= MaxPhrases}

CallSuitable ==
    /\ call = NoCall
    /\ \E text \in CallTexts :
          call' = [op |-> "_is_task_yolo_suitable", text |-> text,
                   ret |-> _is_task_yolo_suitable(text)]
    /\ UNCHANGED <<store, index, published, last, store0, sessionVars>>

\* Stores for the scan: every task id has no file, or one file in one of the
\* three directories.
CallFiles == InitFiles \ {NoFile}

Placements ==
    {[dir |-> ""]} \cup {[dir |-> d, file |-> f] : d \in StatusDirs, f \in CallFiles}

StoreOf(pl) ==
    [d \in StatusDirs |-> [t \in TaskIds |-> IF pl[t].dir = d THEN pl[t].file ELSE NoFile]]

CallStores == {StoreOf(pl) : pl \in [TaskIds -> Placements]}

\* The files of todo whose read raises: none or one of them.
Unreadables(st) == {{}} \cup {{t} : t \in {u \in TaskIds : Exists(st, "todo", u)}}

CallFind ==
    /\ call = NoCall
    /\ \E st \in CallStores, max_tasks \in (-1)..MaxTasksArg,
          component_filter \in {"", "NETWORK"} :
          \E order \in GlobOrders(st), unreadable \in Unreadables(st) :
              call' = [op |-> "_find_yolo_tasks", st |-> st, order |-> order,
                       max_tasks |-> max_tasks, component_filter |-> component_filter,
                       unreadable |-> unreadable,
                       ret |-> _find_yolo_tasks(st, order, max_tasks, component_filter,
                                                unreadable)]
    /\ UNCHANGED <<store, index, published, last, store0, sessionVars>>

\* What the external command of a check can do: exit 0 or 1 with nothing,
\* a warning line or an error line on stderr, run into subprocess's own
\* timeout, or fail to start.
WarningLine == <<"warning:", "unused">>

ErrorLine == <<"error:", "E0308">>

CallProcs ==
    {Exit(0, <<>>), Exit(0, <<WarningLine>>), Exit(0, <<ErrorLine>>),
     Exit(1, <<ErrorLine>>), Exit(1, <<WarningLine>>),
     Proc("timeout", 0, <<>>, <<>>), Proc("raise", 0, <<>>, <<"No such file">>)}

\* The results of the four checks, in the order they are run.
Checks(procs) ==
    <<run_rust_check(procs[1]), run_clippy_check(procs[2]),
      run_doc_validation(procs[3]), run_format_check(procs[4])>>

CallValidate ==
    /\ call = NoCall
    /\ \E procs \in [1..4 -> CallProcs], strict_mode \in BOOLEAN :
          call' = [op |-> "run_all_validations", procs |-> procs,
                   strict_mode |-> strict_mode, checks |-> Checks(procs),
                   ret |-> run_all_validations(procs, strict_mode)]
    /\ UNCHANGED <<store, index, published, last, store0, sessionVars>>

NextCalls == CallSuitable \/ CallFind \/ CallValidate

SpecCalls == InitStore /\ [][NextCalls]_vars

(***************************************************************************)
(* The claims.                                                             *)
(***************************************************************************)
Range(seq) == {seq[k] : k \in DOMAIN seq}

DirsOf(st, t) == {d \in StatusDirs : Exists(st, d, t)}

LegalTransitions ==
    {<<"todo", "in-progress">>, <<"in-progress", "completed">>, <<"in-progress", "todo">>}

\* C1 (as claimed): a move command whose pair (directory the file is in,
\* new status) is none of todo -> in-progress, in-progress -> completed and
\* in-progress -> todo fails (move_task returns False) and leaves every file
\* of the store, with its directory, Status field and progress log, as it was.
C1_TransitionLegality ==
    [][(last'.op = "move" /\ <<last'.from, last'.status>> \notin LegalTransitions)
          => (~last'.ret /\ store' = store)]_vars

\* C2 (as claimed): no task id is in more than one of the three status
\* directories at the same time.
C2_OneDirectoryPerId == \A t \in TaskIds : Cardinality(DirsOf(store, t)) <= 1

\* C3 (as claimed): the Status field of a file generated by
\* create_task_from_issue is exactly the upper-cased name of the directory
\* the file is in, whatever moves it went through.
C3_StatusFieldIsDirectory ==
    \A d \in StatusDirs, t \in TaskIds :
        (Exists(store, d, t) /\ store[d][t].origin # 0)
            => store[d][t].status = StatusWords(d)

Done == pc = "done"

\* C4 (as claimed): a candidate that _execute_task_safely moved back is in
\* todo and in no other directory, its Status field reads TODO, and its
\* progress log has an entry "Status changed to todo".
C4_RollbackLeavesNoOrphan ==
    \A t \in hist.rolled_back :
        /\ DirsOf(store, t) = {"todo"}
        /\ store["todo"][t].status = <<"TODO">>
        /\ "todo" \in Range(store["todo"][t].log)

\* C5 (as claimed): when yolo_mode has returned, no candidate that the
\* session moved into in-progress is still there: each is in todo or in
\* completed.
C5_NothingLeftInProgress ==
    Done => \A t \in hist.begun :
                /\ ~Exists(store, "in-progress", t)
                /\ DirsOf(store, t) \cap {"todo", "completed"} # {}

\* The pre-task gate ran to its end, and what it returned.
PreFlightRan ==
    /\ results.validation_results # <<>>
    /\ results.validation_results[1].stage = "pre-task"

PreFlightResult == results.validation_results[1].result

PreFlightFailed == PreFlightRan /\ ~PreFlightResult.success

PreFlightPassed == PreFlightRan /\ PreFlightResult.success

\* The tasks of todo that pass the component filter and the suitability test.
Eligible(st, component_filter) ==
    {t \in TaskIds :
        /\ Exists(st, "todo", t)
        /\ component_filter # "" => InLower(Lower(component_filter), st["todo"][t].text)
        /\ _is_task_yolo_suitable(st["todo"][t].text)}

\* The file of t is where and what it was when the session started.
Untouched(t) == \A d \in StatusDirs : store[d][t] = store0[d][t]

\* C6: if skip_validation is false and the pre-task gate returns success =
\* false, yolo_mode returns with no task attempted, completed or failed, with
\* the gate's errors as its errors list, without having looked for
\* candidates, and with every file of the store as it was.
C6_PreFlightGateBlocks ==
    (Done /\ ~args.skip_validation /\ PreFlightFailed)
        => /\ results.tasks_attempted = 0
           /\ results.tasks_completed = 0
           /\ results.tasks_failed = 0
           /\ results.errors = [j \in DOMAIN PreFlightResult.errors |->
                                   Bare(PreFlightResult.errors[j])]
           /\ i = 0
           /\ suitable_tasks = <<>>
           /\ store = store0
           /\ published = <<>>

\* C6's case: the gate failed on a store that has a candidate to offer.
C6_Witness ==
    /\ Done /\ ~args.skip_validation /\ PreFlightFailed
    /\ PreFlightResult.errors # <<>>
    /\ args.max_tasks > 0
    /\ Eligible(store0, args.component_filter) # {}

\* The gate run of the task the loop stopped at returned success = false.
PostTaskFailed ==
    /\ task_result.validation_results # <<>>
    /\ ~task_result.validation_results[1].result.success

\* C7 (as claimed): if the K-th attempted task of a session that is no dry
\* run fails its post-task gate, then at return tasks_attempted = K,
\* tasks_failed = 1, tasks_completed = K - 1, the K-th task is in todo, and
\* no candidate after it was touched.
C7_FailFastHalt ==
    (Done /\ ~args.dry_run /\ PostTaskFailed)
        => /\ results.tasks_attempted = i
           /\ results.tasks_failed = 1
           /\ results.tasks_completed = i - 1
           /\ DirsOf(store, suitable_tasks[i]) = {"todo"}
           /\ \A j \in (i + 1)..Len(suitable_tasks) : Untouched(suitable_tasks[j])

EligibleAtStart == Eligible(store0, args.component_filter)

UntouchedEligible == {t \in EligibleAtStart : Untouched(t)}

\* Neither the deadline nor the user has cut the session short.
Uninterrupted == alarm # "fired" /\ ~interrupted

\* C8 (as claimed, for sessions that neither the deadline nor the user cuts
\* short): with the pre-task gate passing and M >= N = max_tasks eligible
\* tasks, exactly N tasks are attempted and M - N eligible tasks are untouched.
C8_ExactlyN ==
    (Done /\ Uninterrupted /\ PreFlightPassed
          /\ Cardinality(EligibleAtStart) >= args.max_tasks)
        => /\ results.tasks_attempted = args.max_tasks
           /\ Cardinality(UntouchedEligible)
                >= Cardinality(EligibleAtStart) - args.max_tasks

\* C8 (amended): with the pre-task gate passing and M >= N = max_tasks
\* eligible tasks, at most N tasks are attempted and at least M - N eligible
\* tasks are untouched; exactly N are attempted unless an attempted task
\* fails, the deadline elapses or the user interrupts.
C8_BoundedAttempts ==
    (Done /\ PreFlightPassed /\ Cardinality(EligibleAtStart) >= args.max_tasks)
        => /\ results.tasks_attempted <= args.max_tasks
           /\ Cardinality(UntouchedEligible)
                >= Cardinality(EligibleAtStart) - args.max_tasks
           /\ (Uninterrupted /\ results.tasks_failed = 0)
                => results.tasks_attempted = args.max_tasks

\* C8's case: more eligible tasks than max_tasks, all of max_tasks attempted
\* and completed, and an eligible task left as it was.
C8_Witness ==
    /\ Done /\ PreFlightPassed /\ ~args.dry_run
    /\ args.max_tasks > 0
    /\ Cardinality(EligibleAtStart) > args.max_tasks
    /\ results.tasks_completed = args.max_tasks
    /\ UntouchedEligible # {}

Min(a, b) == IF a <= b THEN a ELSE b

\* The counts a dry run returns when nothing cuts it short.
DryRunCount == Min(args.max_tasks, Cardinality(EligibleAtStart))

DryRunCountsAreFixed ==
    /\ results.tasks_attempted = DryRunCount
    /\ results.tasks_completed = DryRunCount
    /\ results.tasks_failed = 0

\* C9 (as claimed, for runs the user does not interrupt): a dry run changes
\* no task file and never publishes, and its counts are fixed by its
\* arguments, the store and the outcome of the pre-task gate.
C9_DryRunDeterministic ==
    (args.dry_run /\ ~interrupted)
        => /\ store = store0
           /\ published = <<>>
           /\ (Done /\ (args.skip_validation \/ PreFlightPassed)) => DryRunCountsAreFixed

\* C9 (amended): a dry run changes no task file and never publishes; its
\* counts are fixed by its arguments, the store and the outcome of the
\* pre-task gate when neither the session alarm fires nor the user interrupts.
C9_IdempotentDryRun ==
    args.dry_run
        => /\ store = store0
           /\ published = <<>>
           /\ (Done /\ Uninterrupted /\ (args.skip_validation \/ PreFlightPassed))
                => DryRunCountsAreFixed
           /\ (Done /\ PreFlightFailed)
                => (results.tasks_attempted = 0 /\ results.tasks_completed = 0
                    /\ results.tasks_failed = 0)

\* C9's case: a dry run, past a gate that passed, that reported a candidate
\* and left an eligible task out because of max_tasks.
C9_Witness ==
    /\ Done /\ args.dry_run /\ Uninterrupted /\ PreFlightPassed
    /\ results.tasks_completed = args.max_tasks
    /\ args.max_tasks > 0
    /\ Cardinality(EligibleAtStart) > args.max_tasks

\* C10 (as claimed): a task the file budget test turned down is, when
\* yolo_mode has returned, back in todo and never was in completed, has an
\* error naming the budget in the errors list, was not published and had no
\* post-task gate run, and no candidate after it was attempted.
C10_FileBudget ==
    \A t \in hist.over_budget :
        Done => /\ DirsOf(store, t) = {"todo"}
                /\ "completed" \notin Range(store["todo"][t].log)
                /\ [task |-> t, error |-> BudgetMsg] \in Range(results.errors)
                /\ published = <<>>
                /\ task_result.validation_results = <<>>
                /\ suitable_tasks[i] = t
                /\ results.tasks_attempted = i

\* The alarm's TimeoutError was raised while the candidate the loop is at
\* was in flight: in its begin move, its post-task gate or its rollback move.
TimeoutInFlight == hist.timeout_at \in {"begin", "postval", "rollback"}

\* An entry of the errors list carries the text of the alarm's TimeoutError.
TimeoutIndicated ==
    \E e \in Range(results.errors) : TimeoutMsg[1] \in Range(e.error)

\* C11 (as claimed): if the session alarm fires while a task is in flight
\* (during the begin move, during one of the four checks of the post-task
\* gate, or during a rollback move), yolo_mode returns with that task in
\* todo and in no other directory, and with an entry of its errors list that
\* indicates the timeout.
C11_TimeoutInFlight ==
    (Done /\ TimeoutInFlight)
        => /\ DirsOf(store, suitable_tasks[i]) = {"todo"}
           /\ TimeoutIndicated

\* The lower-cased text contains a keyword of the set.
ContainsKeyword(text, keywords) == \E kw \in keywords : InLower(kw, text)

\* C12: _is_task_yolo_suitable returns true for a text if and only if the
\* lower-cased text contains no risky keyword and at least one suitable
\* keyword; a text with both yields false in any casing, and a text with no
\* keyword of either set yields false.
C12_SuitableIff ==
    call.op = "_is_task_yolo_suitable"
        => /\ call.ret <=> (/\ ~ContainsKeyword(call.text, risky_indicators)
                            /\ ContainsKeyword(call.text, suitable_indicators))
           /\ (/\ ContainsKeyword(call.text, risky_indicators)
               /\ ContainsKeyword(call.text, suitable_indicators)) => ~call.ret
           /\ (/\ ~ContainsKeyword(call.text, risky_indicators)
               /\ ~ContainsKeyword(call.text, suitable_indicators)) => ~call.ret

\* C12's case: a text with a risky keyword in upper case and a suitable one
\* was turned down.
C12_Witness ==
    /\ call.op = "_is_task_yolo_suitable"
    /\ {"SECURITY", "unit test"} \subseteq call.text
    /\ ~call.ret

\* The first min(max_count, number of eligible tasks) tasks of the scan
\* order that are in `eligible`, in that order.
FirstEligible(order, eligible, max_count) ==
    LET IsEligible(t) == t \in eligible
        found == SelectSeq(order, IsEligible)
    IN  SubSeq(found, 1, Min(IF max_count > 0 THEN max_count ELSE 0, Len(found)))

\* What the claim says of a result `ret` when `eligible` are the eligible tasks.
SelectsFirst(eligible) ==
    /\ call.ret = FirstEligible(call.order, eligible, call.max_tasks)
    /\ \A t \in Range(call.ret) : DirsOf(call.st, t) = {"todo"}
    /\ \A a, b \in DOMAIN call.ret : a # b => call.ret[a] # call.ret[b]
    /\ Len(call.ret) <= (IF call.max_tasks > 0 THEN call.max_tasks ELSE 0)
    /\ call.max_tasks <= 0 => call.ret = <<>>

\* C13 (as claimed): _find_yolo_tasks returns exactly the first
\* min(max_count, E) eligible tasks of todo in scan order, a task being
\* eligible iff its content contains the component filter (when one is given),
\* case-insensitively, and is suitable; the result has no task of in-progress
\* or completed, no duplicate, at most max_count tasks, and is empty for
\* max_count <= 0.
C13_SelectCandidates ==
    call.op = "_find_yolo_tasks"
        => SelectsFirst(Eligible(call.st, call.component_filter))

\* C13 (amended): the same, a task being eligible iff its file can be read
\* and its content contains the component filter and is suitable: a file
\* whose read raises is skipped.
C13_SelectReadable ==
    call.op = "_find_yolo_tasks"
        => SelectsFirst(Eligible(call.st, call.component_filter) \ call.unreadable)

\* C13's case: two eligible tasks match the filter and max_count = 1 keeps
\* the first of the scan order.
C13_Witness ==
    /\ call.op = "_find_yolo_tasks"
    /\ call.component_filter = "NETWORK"
    /\ call.unreadable = {}
    /\ Cardinality(Eligible(call.st, call.component_filter)) = 2
    /\ call.max_tasks = 1
    /\ call.ret = <<call.order[1]>>

CallChecks == 1..4

\* A check's success as the gate counts it: its own flag, and in strict mode
\* no warning.
AdjustedSuccess(c, strict_mode) == c.success /\ (~strict_mode \/ c.warnings = <<>>)

\* C14: for the results of the four checks and either strict_mode value,
\* run_all_validations returns success equal to the conjunction over the
\* four checks of (check.success and (not strict_mode or check.warnings is
\* empty)); with strict_mode false, warnings never change success.  (The
\* documentation and format checks return no warnings at all, lines 185-209
\* and 223-247, so that lines 71-72 carry nothing over.)
C14_Aggregation ==
    call.op = "run_all_validations"
        => /\ call.ret.success
                <=> \A k \in CallChecks : AdjustedSuccess(call.checks[k], call.strict_mode)
           /\ ~call.strict_mode
                => (call.ret.success <=> \A k \in CallChecks : call.checks[k].success)

\* C14's case: all four checks succeed, one with a warning, and strict mode
\* fails the gate.
C14_Witness ==
    /\ call.op = "run_all_validations"
    /\ call.strict_mode
    /\ \A k \in CallChecks : call.checks[k].success
    /\ call.checks[2].warnings # <<>>
    /\ ~call.ret.success

\* C15: in every result of run_all_validations, errors non-empty implies
\* success false, and strict mode with warnings non-empty implies success
\* false.
C15_ResultInvariant ==
    call.op = "run_all_validations"
        => /\ call.ret.errors # <<>> => ~call.ret.success
           /\ (call.strict_mode /\ call.ret.warnings # <<>>) => ~call.ret.success

\* C15's case: a gate without strict mode that carries a warning and an error,
\* and a clippy check that succeeded although its output had an error line.
C15_Witness ==
    /\ call.op = "run_all_validations"
    /\ ~call.strict_mode
    /\ call.ret.warnings # <<>>
    /\ call.ret.errors # <<>>
    /\ call.checks[2].success /\ call.checks[2].errors # <<>>
    /\ ~call.ret.success

\* C16: every call of run_all_validations runs the four checks once each in
\* the order cargo_check, clippy, doc_validation, format_check, whatever
\* earlier checks did (failure, timeout, spawn error): checks_run is that
\* sequence.
C16_NoShortCircuit ==
    call.op = "run_all_validations"
        => call.ret.checks_run = <<"cargo_check", "clippy", "doc_validation", "format_check">>

\* C16's case: the first check timed out, the second could not be started
\* and the third failed, and the fourth still ran and passed.
C16_Witness ==
    /\ call.op = "run_all_validations"
    /\ call.procs[1].how = "timeout"
    /\ call.procs[2].how = "raise"
    /\ call.procs[3] = Exit(1, <<ErrorLine>>)
    /\ call.checks[4].success
    /\ Len(call.ret.checks_run) = 4

\* C17: a check whose command cannot be started (subprocess.run raises) or
\* runs into its own timeout returns success false with exactly one error,
\* which describes the cause, and no warnings; the gate's result then has
\* success false and carries that error.
C17_SyntheticFailure ==
    call.op = "run_all_validations"
        => \A k \in CallChecks :
              call.procs[k].how # "exit"
                  => /\ ~call.checks[k].success
                     /\ Len(call.checks[k].errors) = 1
                     /\ call.checks[k].errors[1] # <<>>
                     /\ Range(call.procs[k].exc) \subseteq Range(call.checks[k].errors[1])
                     /\ call.checks[k].warnings = <<>>
                     /\ ~call.ret.success
                     /\ call.checks[k].errors[1] \in Range(call.ret.errors)

\* C17's case: the format check's command could not be started while the
\* three other checks passed.
C17_Witness ==
    /\ call.op = "run_all_validations"
    /\ \A k \in 1..3 : call.procs[k] = Exit(0, <<>>)
    /\ call.procs[4].how = "raise"
    /\ ~call.ret.success
    /\ Len(call.ret.errors) = 1

\* The publish invocations of the session with the given git scenario.
PublishedWith(git) == {p \in Range(published) : p.git = git}

\* An entry of the errors list names the task.
HasErrorFor(t) == \E e \in Range(results.errors) : e.task = t

\* C18 (as claimed): if the commit step of the publish fails during
\* complete, the move fails: the record stays in in-progress (it is neither
\* in completed nor back in todo), and the session counts the task as failed
\* with an error, not as completed.
C18_CommitFailureFailsCompletion ==
    \A p \in PublishedWith("commitfail") :
        /\ DirsOf(store, p.task) = {"in-progress"}
        /\ p.task \notin Range(results.completed_tasks)
        /\ Done => (results.tasks_failed >= 1 /\ HasErrorFor(p.task))

\* C19: if the commit succeeds and the push fails during complete,
\* auto_commit_and_push returns True, the record is in completed, the task is
\* counted as completed, it is not rolled back and no entry of the errors
\* list names it.
C19_PushFailureNonFatal ==
    \A p \in PublishedWith("pushfail") :
        /\ p.ret
        /\ DirsOf(store, p.task) = {"completed"}
        /\ p.task \in Range(results.completed_tasks)
        /\ results.tasks_completed >= 1
        /\ p.task \notin hist.rolled_back
        /\ ~HasErrorFor(p.task)

\* C19's case: a session that returned after a complete whose push failed.
C19_Witness ==
    /\ Done
    /\ PublishedWith("pushfail") # {}
    /\ results.tasks_completed = 1
    /\ results.errors = <<>>

\* What holds of every publish invocation of a session: it belongs to a move
\* to completed of a candidate the session began, whose file is in
\* completed, and no candidate has two.
PublishesAreCompletions ==
    /\ \A p \in Range(published) :
          /\ p.action = "completed"
          /\ p.task \in hist.begun
          /\ DirsOf(store, p.task) = {"completed"}
          /\ p.task \notin hist.rolled_back \cup hist.over_budget
    /\ \A a, b \in DOMAIN published : a # b => published[a].task # published[b].task

C21_BeginFailure ==
    \A t \in hist.begin_failed :
        Done => /\ HasErrorFor(t)
                /\ t \notin Range(results.completed_tasks)
                /\ ~Exists(store, "completed", t)
                /\ \A p \in Range(published) : p.task # t
                /\ (Uninterrupted /\ i < Len(suitable_tasks))
                      => results.tasks_attempted > i

\* The progress log of the file a move command looked up, and of the file
\* it left in the directory of the new status.
LogBeforeMove == store[last'.from][last'.target].log

LogAfterMove == store'[last'.status][last'.target].log

\* C22 (as claimed): every successful move_task adds exactly one entry
\* "Status changed to <new_status>" to the progress log of the record, after
\* all entries already there: the log before is a prefix of the log after,
\* and no entry is removed, duplicated or reordered.
C22_LogAppendOnly ==
    [][(last'.op = "move" /\ last'.ret)
          => LogAfterMove = Append(LogBeforeMove, last'.status)]_vars

\* The records of a store: the places (directory, id) where a file exists.
Records(st) == {p \in StatusDirs \X TaskIds : Exists(st, p[1], p[2])}

\* The record at place p of the store before a step is still a record after
\* it: a file of the same id made from the same issue exists in some
\* directory.
Retained(p) ==
    \E e \in StatusDirs : /\ Exists(store', e, p[2])
                          /\ store'[e][p[2]].origin = store[p[1]][p[2]].origin

\* C23 (as claimed): no operation destroys or overwrites a record: every
\* record that exists before a step is retained by it, no step lowers the
\* number of records (creating a task does not replace the record of the same
\* generated id, a move does not replace a record already in the target
\* directory), and a record in completed stays there with its content intact.
C23_RecordsRetained ==
    [][/\ \A p \in Records(store) : Retained(p)
       /\ Cardinality(Records(store')) >= Cardinality(Records(store))
       /\ \A t \in TaskIds : Exists(store, "completed", t)
                                => store'["completed"][t] = store["completed"][t]]_vars

\* The post-task gate runs of the session made for candidate t.
PostRuns(t) ==
    {j \in DOMAIN hist.gate_runs :
        hist.gate_runs[j].stage = "post-task" /\ hist.gate_runs[j].task = t}

PostPassed(t) == \E j \in PostRuns(t) : hist.gate_runs[j].result.success

PostFailed(t) == \E j \in PostRuns(t) : ~hist.gate_runs[j].result.success

\* A task the session put into completed went through in-progress in the
\* session, passed the file budget test and, unless the gate is skipped,
\* passed a post-task gate run.
CompletionGated ==
    \A t \in TaskIds :
        (Exists(store, "completed", t) /\ ~Exists(store0, "completed", t))
            => /\ t \in hist.begun
               /\ t \notin hist.over_budget
               /\ ~OverBudget(args.max_files)
               /\ args.skip_validation \/ (PostPassed(t) /\ ~PostFailed(t))

\* C24 (as claimed): a task is moved to completed only after the session
\* moved it to in-progress, its file estimate was within max_files and,
\* unless skip_validation, a post-task gate run returned success; and a task
\* whose post-task gate run failed is, when yolo_mode has returned, rolled
\* back to todo with a failure recorded for it, and the session has halted
\* at it.
C24_CompletionGated ==
    /\ CompletionGated
    /\ \A t \in TaskIds :
          (Done /\ PostFailed(t))
              => /\ DirsOf(store, t) = {"todo"}
                 /\ HasErrorFor(t)
                 /\ results.tasks_failed = 1
                 /\ suitable_tasks[i] = t
                 /\ results.tasks_attempted = i

\* The gate runs of the session as entries of a validation_results list.
GateEntries ==
    [j \in DOMAIN hist.gate_runs |->
        [stage |-> hist.gate_runs[j].stage, result |-> hist.gate_runs[j].result]]

\* C25 (as claimed): when yolo_mode has returned, validation_results holds
\* one entry for every gate run of the session, in the order of the runs: the
\* pre-task run and the post-task run of every attempted task, the failing
\* run of a rolled back task included; so if a gate run failed, some entry
\* has success = false.
C25_EveryGateRunListed ==
    Done => /\ results.validation_results = GateEntries
            /\ (\E j \in DOMAIN hist.gate_runs : ~hist.gate_runs[j].result.success)
                  => \E j \in DOMAIN results.validation_results :
                        ~results.validation_results[j].result.success

\* C26: once the deadline has elapsed no candidate is started: in no step
\* taken with the alarm fired is a task counted as attempted, is the begin
\* move reached, or is a file put into in-progress -- also when the
\* TimeoutError was swallowed by a validation check, by the candidate scan
\* or by auto_commit_and_push.
C26_NoStartAfterDeadline ==
    [][alarm = "fired"
          => /\ pc' # "begin"
             /\ results'.tasks_attempted = results.tasks_attempted
             /\ hist'.begun = hist.begun
             /\ \A t \in TaskIds : Exists(store', "in-progress", t)
                                      => Exists(store, "in-progress", t)]_vars

\* The session ended at the deadline test of the loop after an inner handler
\* swallowed the TimeoutError, with a candidate it had found left unattempted.
C26_Witness ==
    /\ Done /\ ~args.dry_run
    /\ alarm = "fired"
    /\ hist.timeout_at \in {"preflight", "find", "complete"}
    /\ TimeoutMsg \notin {e.error : e \in Range(results.errors)}
    /\ results.tasks_attempted < Len(suitable_tasks)

\* The files create_task_from_issue writes.
GeneratedFiles == {create_task_content(issue) : issue \in Issues}

\* Every task the session found in todo is a file create_task_from_issue wrote.
AllGenerated ==
    \A t \in TaskIds : Exists(store0, "todo", t) => store0["todo"][t] \in GeneratedFiles

\* C27: the text of every generated file contains 'security' next to
\* 'documentation', so _is_task_yolo_suitable is false for it; and in a
\* session on a store whose todo tasks are all generated files no candidate
\* is found and no task is attempted or begun, whatever the arguments.
C27_GeneratedNeverSuitable ==
    /\ \A issue \in Issues :
          LET text == create_task_content(issue).text
          IN  /\ InLower("security", text)
              /\ InLower("documentation", text)
              /\ ~_is_task_yolo_suitable(text)
    /\ AllGenerated => /\ suitable_tasks = <<>>
                       /\ results.tasks_attempted = 0
                       /\ hist.begun = {}

\* A session that was asked for tasks, got past the pre-task gate and looked
\* through a todo directory holding generated files only has returned.
C27_Witness ==
    /\ Done /\ Uninterrupted
    /\ AllGenerated
    /\ \A t \in TaskIds : Exists(store0, "todo", t)
    /\ args.max_tasks > 0
    /\ args.skip_validation \/ PreFlightPassed

\* The entries of the errors list that name a task.
TaskErrors == {j \in DOMAIN results.errors : results.errors[j].task # 0}

Max(a, b) == IF a > b THEN a ELSE b

\* C28 (as claimed): in the result yolo_mode returns, tasks_failed <= 1,
\* tasks_attempted <= max(max_tasks, 0), tasks_attempted = tasks_completed +
\* tasks_failed, the errors list has one per-task entry for each failed task,
\* and completed_tasks has tasks_completed entries and total_files_modified =
\* tasks_completed in a session that is no dry run (0 in a dry run).
C28_SessionAccounting ==
    Done => /\ results.tasks_failed <= 1
            /\ results.tasks_attempted <= Max(args.max_tasks, 0)
            /\ results.tasks_attempted = results.tasks_completed + results.tasks_failed
            /\ Cardinality(TaskErrors) = results.tasks_failed
            /\ ~args.dry_run => /\ Len(results.completed_tasks) = results.tasks_completed
                                /\ results.total_files_modified = results.tasks_completed
            /\ args.dry_run => results.total_files_modified = 0

\* C29: the alarm armed at the start of yolo_mode is cancelled on every way
\* out of it -- the return after a failed pre-task gate, the return when no
\* candidate is found, the end of the loop, the break after a failure, the
\* break at the deadline and every except clause: when yolo_mode has returned
\* the alarm is not pending, so it cannot raise after the return.
C29_AlarmCancelled == Done => alarm \in {"cancelled", "fired"}

\* yolo_mode has returned early, after a failed pre-task gate, with the alarm
\* cancelled before it fired.
C29_Witness ==
    /\ Done
    /\ PreFlightFailed
    /\ alarm = "cancelled"
    /\ hist.timeout_at = ""

\* C30: a publish in which the alarm fired (the file is in completed by then)
\* takes the TimeoutError itself and returns False: the task stays in
\* completed, is counted as completed and not as failed, is not rolled back
\* and has no error entry, and the session goes from there to the deadline
\* test and out of the loop, no other candidate being attempted.
C30_TimeoutInPublishAbsorbed ==
    \A p \in PublishedWith("raise") :
        /\ ~p.ret
        /\ alarm = "fired"
        /\ DirsOf(store, p.task) = {"completed"}
        /\ results.completed_tasks # <<>>
        /\ results.completed_tasks[Len(results.completed_tasks)] = p.task
        /\ results.tasks_completed = Len(results.completed_tasks)
        /\ results.tasks_failed = 0
        /\ ~HasErrorFor(p.task)
        /\ TimeoutMsg \notin {e.error : e \in Range(results.errors)}
        /\ p.task \notin hist.rolled_back
        /\ pc \in {"loop", "done"}
        /\ results.tasks_attempted = results.tasks_completed

\* A session returned after the alarm fired in the publish of a task, with a
\* candidate it had found left unattempted.
C30_Witness ==
    /\ Done
    /\ PublishedWith("raise") # {}
    /\ hist.timeout_at = "complete"
    /\ results.tasks_attempted < Len(suitable_tasks)

====
